---- MODULE Spec2Model ----
(***************************************************************************)
(* The crawl-extract-store pipeline of mkt-chatbot: the object store       *)
(* client (aws/s3.py), the spider (crawler/spiders/superside.py), the      *)
(* extraction helpers (processing/_base.py) and the batch driver           *)
(* (processing/superside.py).                                              *)
(*                                                                         *)
(* A Python str is a sequence of one-element strings.  Most elements are   *)
(* single characters; a run of ordinary ASCII letters may be written as    *)
(* one element ("blog", "www.superside.com"), which no operation of the    *)
(* program looks inside.                                                   *)
(***************************************************************************)
EXTENDS Integers, Sequences, FiniteSets, TLC

VARIABLES
    bucket,      \* the S3 bucket: key -> stored body (a str)
    lastPut,     \* history: key -> the mapping last passed to save_dict_to_json
    got,         \* the outcome of the latest read_json since the last write
    started,     \* the spider's start requests have been issued
    sched,       \* the scheduler's pending requests
    seen,        \* the duplicate filter's request fingerprints
    responses,   \* downloaded responses whose callback has not run yet
    disallowed,  \* the URLs the site's robots.txt disallows
    fetched,     \* history: url -> responses downloaded for it
    blocked,     \* history: url -> requests the robots rules refused
    parsed,      \* history: url -> calls of parse_item for it
    collection,  \* the company's MongoDB collection: its documents in natural order
    runPc,       \* Superside.run: "idle", "loop", "done" or "raised"
    files,       \* Superside.run: the listing it iterates
    idx,         \* Superside.run: position in files of the next key
    clock,       \* datetime.now(), advancing with each extraction pass
    failure,     \* history: the call of Superside.run that raised
    arg,         \* the argument of a helper called on its own
    out          \* what that call returned or raised

s3Vars == <<bucket, lastPut, got>>
crawlVars == <<started, sched, seen, responses, disallowed, fetched, blocked, parsed>>
runVars == <<collection, runPc, files, idx, clock, failure>>
fnVars == <<arg, out>>
vars == <<s3Vars, crawlVars, runVars, fnVars>>

(***************************************************************************)
(* Bounds of the model.                                                    *)
(***************************************************************************)
MaxStrLen == 1
MaxLinks == 2
MaxPasses == 2
MaxCleanLen == 4

(***************************************************************************)
(* Python values.                                                          *)
(***************************************************************************)
PNone == [t |-> "none"]
PTrue == [t |-> "true"]
PStr(s) == [t |-> "str", s |-> s]
PList(items) == [t |-> "list", l |-> items]
\* a dict keeps insertion order: a sequence of [k, v] with distinct keys
PDict(pairs) == [t |-> "dict", d |-> pairs]

\* d.get(key): None when the key is absent
dict_get(d, key) ==
    IF \E j \in 1..Len(d.d) : d.d[j].k = key
    THEN d.d[CHOOSE j \in 1..Len(d.d) : d.d[j].k = key].v
    ELSE PNone

RECURSIVE JoinSeq(_, _)
\* sep.join(parts) on strs
JoinSeq(parts, sep) ==
    IF Len(parts) = 0 THEN <<>>
    ELSE IF Len(parts) = 1 THEN parts[1]
    ELSE parts[1] \o sep \o JoinSeq(Tail(parts), sep)

IsPrefix(p, s) == Len(p) <= Len(s) /\ SubSeq(s, 1, Len(p)) = p

RECURSIVE StrReplace(_, _, _)
\* s.replace(old, new): the non-overlapping occurrences of old, left to right
StrReplace(s, old, new) ==
    IF Len(s) < Len(old) THEN s
    ELSE IF IsPrefix(old, s)
        THEN new \o StrReplace(SubSeq(s, Len(old) + 1, Len(s)), old, new)
    ELSE <<Head(s)>> \o StrReplace(Tail(s), old, new)

Whitespace == {" ", "\n"}
RECURSIVE LStrip(_)
LStrip(s) == IF s # <<>> /\ Head(s) \in Whitespace THEN LStrip(Tail(s)) ELSE s
RECURSIVE RStrip(_)
RStrip(s) ==
    IF s # <<>> /\ s[Len(s)] \in Whitespace THEN RStrip(SubSeq(s, 1, Len(s) - 1)) ELSE s
\* s.strip()
Strip(s) == RStrip(LStrip(s))

\* `sub in s` on strs
Contains(s, sub) ==
    \E i \in 1..(Len(s) - Len(sub) + 1) : SubSeq(s, i, i + Len(sub) - 1) = sub

(***************************************************************************)
(* json.dumps / json.loads with their defaults (ensure_ascii=True,        *)
(* separators ", " and ": ", strict=True).                                 *)
(***************************************************************************)
\* characters with ord >= 128, and the four hex digits of their \u escape
NonAscii == {"é", "ü"}
HexOf(c) == IF c = "é" THEN "00e9" ELSE "00fc"
HexCodes == {HexOf(c) : c \in NonAscii}
CharOfHex(h) == CHOOSE c \in NonAscii : HexOf(c) = h

RECURSIVE JsonEscapeQuotesOnly(_)
\* an encoder that escapes the quote and nothing else
JsonEscapeQuotesOnly(s) ==
    IF s = <<>> THEN <<>>
    ELSE (IF Head(s) = "\"" THEN <<"\\", "\"">> ELSE <<Head(s)>>)
         \o JsonEscapeQuotesOnly(Tail(s))

RECURSIVE JsonEscape(_)
\* the body of a JSON string: py_encode_basestring_ascii
JsonEscape(s) ==
    IF s = <<>> THEN <<>>
    ELSE LET c == Head(s)
             e == IF c = "\"" THEN <<"\\", "\"">>
                  ELSE IF c = "\\" THEN <<"\\", "\\">>
                  ELSE IF c = "\n" THEN <<"\\", "n">>
                  ELSE IF c \in NonAscii THEN <<"\\", "u", HexOf(c)>>
                  ELSE <<c>>
         IN e \o JsonEscape(Tail(s))

JsonQuote(s) == <<"\"">> \o JsonEscape(s) \o <<"\"">>

RECURSIVE json_dumps(_)
json_dumps(v) ==
    CASE v.t = "none" -> <<"null">>
      [] v.t = "true" -> <<"true">>
      [] v.t = "str"  -> JsonQuote(v.s)
      [] v.t = "list" ->
            <<"[">>
            \o JoinSeq([i \in 1..Len(v.l) |-> json_dumps(v.l[i])], <<",", " ">>)
            \o <<"]">>
      [] v.t = "dict" ->
            <<"{">>
            \o JoinSeq([i \in 1..Len(v.d) |->
                          JsonQuote(v.d[i].k) \o <<":", " ">> \o json_dumps(v.d[i].v)],
                       <<",", " ">>)
            \o <<"}">>

\* the outcome of a parse step: ok, the value, and the next position
ParseFail == [ok |-> FALSE]
ParseOk(v, i) == [ok |-> TRUE, v |-> v, i |-> i]

RECURSIVE SkipWs(_, _)
SkipWs(text, i) ==
    IF i <= Len(text) /\ text[i] \in {" ", "\n"} THEN SkipWs(text, i + 1) ELSE i

RECURSIVE ScanString(_, _, _)
\* text[i..] after an opening quote; acc is the str decoded so far
ScanString(text, i, acc) ==
    IF i > Len(text) THEN ParseFail
    ELSE IF text[i] = "\"" THEN ParseOk(acc, i + 1)
    ELSE IF text[i] = "\\" THEN
        IF i + 1 > Len(text) THEN ParseFail
        ELSE IF text[i + 1] \in {"\"", "\\"}
            THEN ScanString(text, i + 2, Append(acc, text[i + 1]))
        ELSE IF text[i + 1] = "n" THEN ScanString(text, i + 2, Append(acc, "\n"))
        ELSE IF text[i + 1] = "u" /\ i + 2 <= Len(text) /\ text[i + 2] \in HexCodes
            THEN ScanString(text, i + 3, Append(acc, CharOfHex(text[i + 2])))
        ELSE ParseFail
    ELSE IF text[i] = "\n" THEN ParseFail   \* strict: no raw control character
    ELSE ScanString(text, i + 1, Append(acc, text[i]))

\* d[key] = value on an insertion-ordered dict
DictSet(pairs, key, value) ==
    IF \E j \in 1..Len(pairs) : pairs[j].k = key
    THEN [j \in 1..Len(pairs) |->
            IF pairs[j].k = key THEN [k |-> key, v |-> value] ELSE pairs[j]]
    ELSE Append(pairs, [k |-> key, v |-> value])

RECURSIVE ParseValue(_, _), ParseElements(_, _, _), ParseMembers(_, _, _)
ParseValue(text, i0) ==
    LET i == SkipWs(text, i0) IN
    IF i > Len(text) THEN ParseFail
    ELSE IF text[i] = "null" THEN ParseOk(PNone, i + 1)
    ELSE IF text[i] = "true" THEN ParseOk(PTrue, i + 1)
    ELSE IF text[i] = "\"" THEN
        LET r == ScanString(text, i + 1, <<>>) IN
        IF r.ok THEN ParseOk(PStr(r.v), r.i) ELSE ParseFail
    ELSE IF text[i] = "[" THEN
        LET j == SkipWs(text, i + 1) IN
        IF j <= Len(text) /\ text[j] = "]" THEN ParseOk(PList(<<>>), j + 1)
        ELSE ParseElements(text, j, <<>>)
    ELSE IF text[i] = "{" THEN
        LET j == SkipWs(text, i + 1) IN
        IF j <= Len(text) /\ text[j] = "}" THEN ParseOk(PDict(<<>>), j + 1)
        ELSE ParseMembers(text, j, <<>>)
    ELSE ParseFail

\* the elements of an array from position i, after "[" or ","
ParseElements(text, i, acc) ==
    LET r == ParseValue(text, i) IN
    IF ~r.ok THEN ParseFail
    ELSE LET j == SkipWs(text, r.i) IN
         IF j > Len(text) THEN ParseFail
         ELSE IF text[j] = "]" THEN ParseOk(PList(Append(acc, r.v)), j + 1)
         ELSE IF text[j] = "," THEN ParseElements(text, j + 1, Append(acc, r.v))
         ELSE ParseFail

\* the members of an object from position i, after "{" or ","
ParseMembers(text, i0, acc) ==
    LET i == SkipWs(text, i0) IN
    IF i > Len(text) \/ text[i] # "\"" THEN ParseFail
    ELSE LET k == ScanString(text, i + 1, <<>>) IN
         IF ~k.ok THEN ParseFail
         ELSE LET c == SkipWs(text, k.i) IN
              IF c > Len(text) \/ text[c] # ":" THEN ParseFail
              ELSE LET r == ParseValue(text, c + 1) IN
                   IF ~r.ok THEN ParseFail
                   ELSE LET j == SkipWs(text, r.i)
                            acc2 == DictSet(acc, k.v, r.v)
                        IN IF j > Len(text) THEN ParseFail
                           ELSE IF text[j] = "}" THEN ParseOk(PDict(acc2), j + 1)
                           ELSE IF text[j] = "," THEN ParseMembers(text, j + 1, acc2)
                           ELSE ParseFail

\* json.loads(text): [ok |-> FALSE] stands for JSONDecodeError
json_loads(text) ==
    LET r == ParseValue(text, 1) IN
    IF r.ok /\ SkipWs(text, r.i) = Len(text) + 1 THEN ParseOk(r.v, r.i) ELSE ParseFail

(***************************************************************************)
(* aws/s3.py: AWSS3 over one bucket.                                       *)
(***************************************************************************)
\* client.put_object(Bucket, Body, Key): creates or overwrites the object
put_object(b, key, body) ==
    [k \in DOMAIN b \cup {key} |-> IF k = key THEN body ELSE b[k]]

\* AWSS3.save_dict_to_json(item, path): the bucket afterwards
save_dict_to_json(b, item, path) == put_object(b, path, json_dumps(item))

\* AWSS3.read_json(path): raises when get_object finds no such key or the
\* body is not JSON, else returns the decoded value
read_json(b, path) ==
    IF path \notin DOMAIN b THEN [raised |-> TRUE, key |-> path]
    ELSE LET r == json_loads(b[path]) IN
         IF r.ok THEN [raised |-> FALSE, key |-> path, v |-> r.v]
         ELSE [raised |-> TRUE, key |-> path]

NoRead == [raised |-> FALSE, key |-> <<>>]
EmptyBucket == [k \in {} |-> <<>>]

(***************************************************************************)
(* crawler/spiders/superside.py and crawler/settings.py: SupersideSpider,  *)
(* a CrawlSpider with one Rule(callback="parse_item", follow=True).        *)
(***************************************************************************)
name == <<"Superside">>
allowed_domains == {"superside.com"}
DEPTH_LIMIT == 4
ROBOTSTXT_OBEY_Off == FALSE
ROBOTSTXT_OBEY == TRUE

Home == <<"https", "://", "www.superside.com">>
start_urls == {Home}
\* the URLs the site's pages may link to
SiteUrls ==
    {Home,
     Home \o <<"/", "blog", "/", "a">>,
     Home \o <<"/", "blog", "-", "a">>,
     Home \o <<"/", "é">>,
     Home \o <<"/", "blog", "/", "tag", "/", "x">>,
     <<"https", "://", "other.com", "/", "x">>}
\* the URLs the site's robots.txt may disallow
RobotsUrls == {Home, Home \o <<"/", "blog", "/", "a">>}

\* the registered domain of a URL's host
DomainOf(url) == IF url[3] = "www.superside.com" THEN "superside.com" ELSE url[3]
\* OffsiteMiddleware: the request's host is in allowed_domains
OnSite(url) == DomainOf(url) \in allowed_domains

\* the page the site serves at a URL (response.text)
SiteText(url) == <<"<p>", url[Len(url)]>>

RECURSIVE AfterLast(_, _)
\* s.split(sep)[-1] for a one-element separator
AfterLast(s, sep) ==
    IF \E i \in 1..Len(s) : s[i] = sep
    THEN AfterLast(SubSeq(s, (CHOOSE i \in 1..Len(s) : s[i] = sep) + 1, Len(s)), sep)
    ELSE s


\* parse_item, lines 56-58: the object key of a response's URL
page_name(url) == StrReplace(AfterLast(url, "://"), <<"/">>, <<"-">>)
page_name_cleaned(url) ==
    LET pn == page_name(url) IN [i \in 1..Len(pn) |-> IF pn[i] \in NonAscii THEN "-" ELSE pn[i]]
file_path(url) == <<"pages", "/">> \o name \o <<"/">> \o page_name_cleaned(url) \o <<".json">>

\* parse_item, lines 60-63
CaptureItem(url, text) ==
    PDict(<<[k |-> <<"url">>, v |-> PStr(url)], [k |-> <<"content">>, v |-> PStr(text)]>>)

Bump(f, x) == [f EXCEPT ![x] = @ + 1]
Zero == [u \in SiteUrls |-> 0]

RunIdle ==
    /\ collection = <<>>
    /\ runPc = "idle"
    /\ files = PNone
    /\ idx = 1
    /\ clock = 0
    /\ failure = "none"

Pending == [raised |-> FALSE, pending |-> TRUE]
FnIdle ==
    /\ arg = <<>>
    /\ out = Pending

CrawlIdle ==
    /\ started = FALSE
    /\ sched = {}
    /\ seen = {}
    /\ responses = {}
    /\ disallowed = {}
    /\ fetched = Zero
    /\ blocked = Zero
    /\ parsed = Zero

InitCrawl ==
    /\ bucket = EmptyBucket
    /\ lastPut = EmptyBucket
    /\ got = NoRead
    /\ started = FALSE
    /\ sched = {}
    /\ seen = {}
    /\ responses = {}
    /\ disallowed \in SUBSET RobotsUrls
    /\ fetched = Zero
    /\ blocked = Zero
    /\ parsed = Zero
    /\ RunIdle
    /\ FnIdle

\* Spider.start_requests: Request(url, dont_filter=True) for each start URL,
\* so the scheduler enqueues it without consulting the duplicate filter
StartRequests ==
    /\ ~started
    /\ started' = TRUE
    /\ sched' = sched \cup {[url |-> u, depth |-> 0, cb |-> "parse"] : u \in start_urls}
    /\ UNCHANGED <<s3Vars, seen, responses, disallowed, fetched, blocked, parsed, runVars, fnVars>>

\* the downloader takes a pending request: RobotsTxtMiddleware drops it when
\* the rules disallow its URL; otherwise the site answers, or the download
\* fails and the request is dropped
Download(req, answers) ==
    /\ req \in sched
    /\ sched' = sched \ {req}
    /\ IF ROBOTSTXT_OBEY /\ req.url \in disallowed
       THEN /\ blocked' = Bump(blocked, req.url)
            /\ UNCHANGED <<responses, fetched>>
       ELSE IF answers
            THEN /\ fetched' = Bump(fetched, req.url)
                 /\ responses' = responses \cup
                        {[url |-> req.url, depth |-> req.depth, cb |-> req.cb,
                          text |-> SiteText(req.url)]}
                 /\ UNCHANGED blocked
            ELSE UNCHANGED <<responses, fetched, blocked>>
    /\ UNCHANGED <<s3Vars, started, seen, disallowed, parsed, runVars, fnVars>>

\* CrawlSpider._requests_to_follow with the spider middlewares and the
\* scheduler: of the links of a page at depth d, those off site or deeper
\* than DEPTH_LIMIT are dropped, and of the rest those whose fingerprint the
\* duplicate filter has not seen are recorded and enqueued
Followed(links, d) ==
    {u \in links : OnSite(u) /\ d + 1 <= DEPTH_LIMIT /\ u \notin seen}

\* the callback of a response: Rule requests run parse_item (lines 56-65),
\* start requests run parse_start_url, which stores nothing; both follow
\* the page's links
Callback(resp, links) ==
    /\ resp \in responses
    /\ responses' = responses \ {resp}
    /\ IF resp.cb = "parse_item"
       THEN /\ bucket' = save_dict_to_json(bucket, CaptureItem(resp.url, resp.text),
                                           file_path(resp.url))
            /\ lastPut' = put_object(lastPut, file_path(resp.url),
                                     CaptureItem(resp.url, resp.text))
            /\ parsed' = Bump(parsed, resp.url)
       ELSE UNCHANGED <<bucket, lastPut, parsed>>
    /\ seen' = seen \cup Followed(links, resp.depth)
    /\ sched' = sched \cup
          {[url |-> u, depth |-> resp.depth + 1, cb |-> "parse_item"] :
              u \in Followed(links, resp.depth)}
    /\ UNCHANGED <<got, started, disallowed, fetched, blocked, runVars, fnVars>>

LinkSets == {L \in SUBSET SiteUrls : Cardinality(L) <= MaxLinks}

NextCrawl ==
    \/ StartRequests
    \/ \E req \in sched, answers \in BOOLEAN : Download(req, answers)
    \/ \E resp \in responses, links \in LinkSets : Callback(resp, links)

SpecCrawl == InitCrawl /\ [][NextCrawl]_vars

\* the URL recorded in the Page Capture stored under a key
StoredUrl(k) == dict_get(read_json(bucket, k).v, <<"url">>)
StoredContent(k) == dict_get(read_json(bucket, k).v, <<"content">>)

\* C2: within one crawl run every URL of the allowed domains is downloaded
\* at most once and parse_item is called for it at most once.
C2_FetchedOnce == \A u \in SiteUrls : OnSite(u) => fetched[u] <= 1 /\ parsed[u] <= 1

\* C3: no Page Capture is stored for a URL the robots rules disallow; such
\* a URL is never downloaded, never parsed, and refused at most once.
C3_RobotsObeyed ==
    \A u \in disallowed :
        /\ fetched[u] = 0
        /\ parsed[u] = 0
        /\ blocked[u] <= 1
        /\ \A k \in DOMAIN bucket : StoredUrl(k) # PStr(u)

\* a disallowed URL was requested and refused, and the key it would be
\* stored under holds the capture of another URL
C3_Witness ==
    \E u \in disallowed :
        /\ blocked[u] = 1
        /\ file_path(u) \in DOMAIN bucket

\* C4: the store holds exactly one Page Capture per URL parse_item was
\* called for, under that URL's key, holding that URL and its content.
C4_OneCapturePerUrl ==
    /\ Cardinality(DOMAIN bucket) = Cardinality({u \in SiteUrls : parsed[u] > 0})
    /\ \A u \in SiteUrls :
          parsed[u] > 0 =>
              /\ file_path(u) \in DOMAIN bucket
              /\ StoredUrl(file_path(u)) = PStr(u)
              /\ StoredContent(file_path(u)) = PStr(SiteText(u))

(***************************************************************************)
(* processing/_base.py: BaseProcessing.                                    *)
(*                                                                         *)
(* An HTML document is a str in which an element of Markup opens a node    *)
(* and the elements up to the next one are that node's text (for the two   *)
(* meta tags, the value of the content attribute).                         *)
(***************************************************************************)
Markup == {"<og:title>", "<description>", "<p>", "<div>", "<script:__NEXT_DATA__>"}

\* the selectors Superside.run and extract_next_data pass to tree.xpath
SelTitle == "<og:title>"
SelDescription == "<description>"
SelTexts == "<p>"
SelNextData == "<script:__NEXT_DATA__>"

invalid_pages ==
    {<<"-", "blog", "-", "author", "-">>,
     <<"-", "blog", "-", "authors", "-">>,
     <<"-", "blog", "-", "category", "-">>,
     <<"-", "blog", "-", "tag", "-">>}

\* get_files_paths, line 88: the paths containing no invalid_pages substring
files_valid(paths) ==
    SelectSeq(paths, LAMBDA f : ~\E sub \in invalid_pages : Contains(f, sub))

RECURSIVE TextUpTo(_)
\* the leading elements of s that are not markup
TextUpTo(s) ==
    IF s = <<>> \/ Head(s) \in Markup THEN <<>> ELSE <<Head(s)>> \o TextUpTo(Tail(s))

RECURSIVE xpath(_, _)
\* tree.xpath(selector): in document order, the content attribute of each
\* matching meta tag, or the text nodes under each matching element (an
\* element without text has no text node)
xpath(tree, selector) ==
    IF tree = <<>> THEN <<>>
    ELSE LET text == TextUpTo(Tail(tree))
             rest == xpath(Tail(tree), selector)
         IN IF Head(tree) = selector
               /\ (selector \in {SelTitle, SelDescription} \/ text # <<>>)
            THEN <<text>> \o rest
            ELSE rest

\* lxml.html.fromstring(content): raises for a value that is not a str and
\* for an empty document
fromstring(content) ==
    IF content.t # "str" \/ Strip(content.s) = <<>> THEN [raised |-> TRUE]
    ELSE [raised |-> FALSE, tree |-> content.s]

Nbsp == <<"&", "n", "b", "s", "p", ";">>

\* extract_text_by_xpath without its `if not data` guard
extract_text_by_xpath_unguarded(tree, selector) ==
    PStr(StrReplace(StrReplace(JoinSeq(xpath(tree, selector), <<" ">>), <<"\n">>, <<>>),
                    Nbsp, <<>>))

\* BaseProcessing.extract_text_by_xpath, lines 152-155
extract_text_by_xpath(tree, selector) ==
    LET data == xpath(tree, selector) IN
    IF data = <<>> THEN PNone
    ELSE PStr(StrReplace(StrReplace(JoinSeq(data, <<" ">>), <<"\n">>, <<>>), Nbsp, <<>>))

RECURSIVE CleanFrom(_)
\* re.sub("<.*?>", "", text): at a "<" whose next ">" comes before any
\* newline the span through that ">" is dropped; "." matches no newline
CleanFrom(s) ==
    IF s = <<>> THEN <<>>
    ELSE IF Head(s) = "<"
            /\ \E j \in 2..Len(s) :
                  /\ s[j] = ">"
                  /\ \A m \in 2..(j - 1) : s[m] \notin {">", "\n"}
        THEN LET j == CHOOSE j \in 2..Len(s) :
                          s[j] = ">" /\ \A m \in 2..(j - 1) : s[m] # ">"
             IN CleanFrom(SubSeq(s, j + 1, Len(s)))
    ELSE <<Head(s)>> \o CleanFrom(Tail(s))

\* BaseProcessing.cleanhtml, line 136
cleanhtml(text) == CleanFrom(text)

RECURSIVE nested_lookup(_, _)
\* nested_lookup(key, document): the values under key at any depth of the
\* dicts and lists of document, a match before what lies beneath it
nested_lookup(key, doc) ==
    IF doc.t = "list" THEN
        IF doc.l = <<>> THEN <<>>
        ELSE nested_lookup(key, Head(doc.l)) \o nested_lookup(key, PList(Tail(doc.l)))
    ELSE IF doc.t = "dict" THEN
        IF doc.d = <<>> THEN <<>>
        ELSE LET kv == Head(doc.d) IN
             (IF kv.k = key THEN <<kv.v>> ELSE <<>>)
             \o (IF kv.v.t \in {"dict", "list"} THEN nested_lookup(key, kv.v) ELSE <<>>)
             \o nested_lookup(key, PDict(Tail(doc.d)))
    ELSE <<>>

\* bool(v)
Truthy(v) ==
    CASE v.t = "none" -> FALSE
      [] v.t = "true" -> TRUE
      [] v.t = "str"  -> v.s # <<>>
      [] v.t = "list" -> v.l # <<>>
      [] v.t = "dict" -> v.d # <<>>

\* BaseProcessing.extract_next_data, lines 105-120: [raised |-> TRUE] for
\* an exception (IndexError, JSONDecodeError, AttributeError), else the
\* returned value
extract_next_data(tree) ==
    LET scripts == xpath(tree, SelNextData) IN
    IF scripts = <<>> THEN [raised |-> TRUE]
    ELSE LET parsed_ == json_loads(scripts[1]) IN
    IF ~parsed_.ok THEN [raised |-> TRUE]
    ELSE LET next_data == nested_lookup(<<"paragraph">>, parsed_.v)
                          \o nested_lookup(<<"body">>, parsed_.v)
                          \o nested_lookup(<<"content">>, parsed_.v)
             kept == SelectSeq(next_data, Truthy)
         IN IF \E i \in 1..Len(kept) : kept[i].t # "str" THEN [raised |-> TRUE]
            ELSE LET cleaned == [i \in 1..Len(kept) |-> cleanhtml(Strip(kept[i].s))]
                     text == StrReplace(StrReplace(JoinSeq(cleaned, <<" ">>), <<"\n">>, <<>>),
                                        Nbsp, <<>>)
                 IN [raised |-> FALSE, v |-> IF text = <<>> THEN PNone ELSE PStr(text)]

(***************************************************************************)
(* processing/superside.py: Superside.run, one action per call it makes    *)
(* to the stores, with the captures the spider left in the bucket.         *)
(***************************************************************************)
company == <<"Superside">>

KeyOrder == <<"-", ".json", "/", "Superside", "a", "blog", "pages", "tag",
              "www.superside.com", "x">>
Rank(c) == CHOOSE i \in 1..Len(KeyOrder) : KeyOrder[i] = c
RECURSIVE KeyLess(_, _)
\* the order in which list_objects_v2 returns keys
KeyLess(a, b) ==
    IF a = <<>> THEN b # <<>>
    ELSE IF b = <<>> THEN FALSE
    ELSE IF Head(a) = Head(b) THEN KeyLess(Tail(a), Tail(b))
    ELSE Rank(Head(a)) < Rank(Head(b))

RECURSIVE SortKeys(_)
SortKeys(S) ==
    IF S = {} THEN <<>>
    ELSE LET m == CHOOSE k \in S : \A o \in S \ {k} : KeyLess(k, o)
         IN <<m>> \o SortKeys(S \ {m})

\* AWSS3.list_files_from_path(path), lines 35-40: None when nothing matches
list_files_from_path(b, path) ==
    LET keys == {k \in DOMAIN b : IsPrefix(path, k)} IN
    IF keys = {} THEN PNone ELSE PList(SortKeys(keys))

\* collection.replace_one(filter={"url": url}, replacement=item, upsert=True)
\* that inserts without looking for a match
insert_one(coll, url, item) == Append(coll, item)

\* collection.replace_one(filter={"url": url}, replacement=item, upsert=True):
\* the first document with that url is replaced in place, else item is added
replace_one(coll, url, item) ==
    IF \E i \in 1..Len(coll) : coll[i].url = url
    THEN LET i == CHOOSE i \in 1..Len(coll) :
                      coll[i].url = url /\ \A j \in 1..(i - 1) : coll[j].url # url
         IN [coll EXCEPT ![i] = item]
    ELSE Append(coll, item)

\* the pages a capture may hold (response.text)
PageFull ==
    <<"<og:title>", "T", "<description>", "D", "\n", "<div>", "x",
      "<p>", "a", "\n", "b", "<p>", "c", "&", "n", "b", "s", "p", ";">>
PageTexts ==
    {PageFull,
     <<"<div>", "x", "<p>", "x">>,
     <<"<div>", "x">>,
     <<"<og:title>", "<p>", "&", "n", "b", "s", "p", ";">>,
     <<"<script:__NEXT_DATA__>", "{", "\"", "body", "\"", ":", " ", "\"", "Y", "\"", "}">>,
     <<>>}
RunUrls ==
    {Home \o <<"/", "blog", "/", "a">>,
     Home \o <<"/", "blog", "-", "a">>,
     Home \o <<"/", "blog", "/", "tag", "/", "x">>}
RunKeys == {file_path(u) : u \in RunUrls}
\* the buckets parse_item can leave: under each key nothing, or the capture
\* of a URL with that key
CrawledBuckets ==
    {b \in [RunKeys -> {<<>>} \cup {json_dumps(CaptureItem(u, t)) : u \in RunUrls, t \in PageTexts}] :
        \A k \in RunKeys :
            b[k] # <<>> => \E u \in RunUrls, t \in PageTexts :
                              file_path(u) = k /\ b[k] = json_dumps(CaptureItem(u, t))}
Restrict(b) == [k \in {x \in DOMAIN b : b[x] # <<>>} |-> b[k]]

InitRun ==
    /\ \E b \in CrawledBuckets : bucket = Restrict(b)
    /\ lastPut = EmptyBucket
    /\ got = NoRead
    /\ CrawlIdle
    /\ RunIdle
    /\ FnIdle

\* Superside(company, full_load, debug) and run() up to the loop, lines
\* 43-45; _connect_mongodb drops the collection when full_load is set
RunStart(full_load) ==
    /\ runPc \in {"idle", "done", "raised"}
    /\ clock < MaxPasses
    /\ clock' = clock + 1
    /\ LET coll == IF full_load THEN <<>> ELSE collection
           listed == list_files_from_path(bucket, <<"pages", "/">> \o company)
       IN /\ collection' = coll
          /\ files' = listed
          /\ idx' = 1
          /\ IF listed.t # "list"
             THEN runPc' = "raised" /\ failure' = "list"
             ELSE runPc' = "loop" /\ failure' = "none"
    /\ UNCHANGED <<s3Vars, crawlVars, fnVars>>

\* one iteration of the loop, lines 46-62
RunStep ==
    /\ runPc = "loop"
    /\ LET file == files.l[idx]
           r == read_json(bucket, file)
       IN IF r.raised \/ r.v.t # "dict"
          THEN /\ runPc' = "raised" /\ failure' = "read"
               /\ UNCHANGED <<collection, idx>>
          ELSE LET doc == fromstring(dict_get(r.v, <<"content">>)) IN
               IF doc.raised
               THEN /\ runPc' = "raised" /\ failure' = "parse"
                    /\ UNCHANGED <<collection, idx>>
               ELSE LET item == [url |-> dict_get(r.v, <<"url">>),
                                 title |-> extract_text_by_xpath(doc.tree, SelTitle),
                                 description |-> extract_text_by_xpath(doc.tree, SelDescription),
                                 texts |-> extract_text_by_xpath(doc.tree, SelTexts),
                                 updated_at |-> clock]
                    IN /\ collection' = replace_one(collection, item.url, item)
                       /\ idx' = idx + 1
                       /\ runPc' = IF idx = Len(files.l) THEN "done" ELSE "loop"
                       /\ UNCHANGED failure
    /\ UNCHANGED <<s3Vars, crawlVars, files, clock, fnVars>>

\* the bucket is purged of a capture from outside while a pass is running
Purge(k) ==
    /\ runPc = "loop"
    /\ k \in DOMAIN bucket
    /\ bucket' = [x \in DOMAIN bucket \ {k} |-> bucket[x]]
    /\ UNCHANGED <<lastPut, got, crawlVars, runVars, fnVars>>

NextRun ==
    \/ \E full_load \in BOOLEAN : RunStart(full_load)
    \/ RunStep
    \/ \E k \in RunKeys : Purge(k)

SpecRun == InitRun /\ [][NextRun]_vars

\* the documents of the collection whose url is u
DocsOf(u) == {i \in 1..Len(collection) : collection[i].url = u}

\* C1: the collection never holds two Normalized Records with the same url,
\* whatever passes Superside.run has made over the captures.
C1_OneRecordPerUrl ==
    \A i, j \in 1..Len(collection) : collection[i].url = collection[j].url => i = j

\* a second pass has replaced the first record in place: it stays first and
\* carries the later timestamp, next to a record of the first pass
C1_Witness ==
    /\ Len(collection) = 2
    /\ collection[1].updated_at = 2
    /\ collection[2].updated_at = 1

\* C6: Superside.run is never aborted by the key it is processing: neither
\* read_json raising for it nor its content failing to parse ends the run.
C6_BatchNotAborted == ~(runPc = "raised" /\ failure \in {"read", "parse"})

IsInvalidPage(k) == \E sub \in invalid_pages : Contains(k, sub)

\* C7: when Superside.run has finished, each capture whose key contains none
\* of the invalid_pages substrings has exactly one record, and a capture
\* whose key contains one has none.
C7_NoRecordForInvalidPages ==
    runPc = "done" =>
        \A k \in DOMAIN bucket :
            IF IsInvalidPage(k)
            THEN DocsOf(StoredUrl(k)) = {}
            ELSE Cardinality(DocsOf(StoredUrl(k))) = 1

\* the text the claim describes for a matched field: the text nodes joined
\* with single spaces, newlines and "&nbsp;" removed
JoinedClean(nodes) ==
    StrReplace(StrReplace(JoinSeq(nodes, <<" ">>), <<"\n">>, <<>>), Nbsp, <<>>)
FieldAsClaimed(value, nodes) ==
    IF nodes = <<>> THEN value = PNone ELSE value = PStr(JoinedClean(nodes))

\* C8: every capture the loop has got past has a record, and in the record
\* of a capture each of title, description and texts is None when its
\* selector matches nothing in the capture's page and is otherwise the
\* matched text nodes joined with single spaces, without newlines and
\* "&nbsp;", independently of the other two fields.
C8_UnmatchedFieldsAbsent ==
    /\ \A i \in 1..Len(collection) : \A k \in DOMAIN bucket :
          StoredUrl(k) = collection[i].url =>
              LET tree == StoredContent(k).s IN
              /\ FieldAsClaimed(collection[i].title, xpath(tree, SelTitle))
              /\ FieldAsClaimed(collection[i].description, xpath(tree, SelDescription))
              /\ FieldAsClaimed(collection[i].texts, xpath(tree, SelTexts))
    /\ files.t = "list" =>
          \A j \in 1..(idx - 1) :
              files.l[j] \in DOMAIN bucket => DocsOf(StoredUrl(files.l[j])) # {}

\* a page with paragraphs but neither meta tag, and a page where nothing
\* matches, have both been extracted
C8_Witness ==
    /\ \E i \in 1..Len(collection) :
          /\ collection[i].title = PNone
          /\ collection[i].description = PNone
          /\ collection[i].texts = PStr(<<"x">>)
    /\ \E i \in 1..Len(collection) :
          /\ collection[i].title = PNone
          /\ collection[i].description = PNone
          /\ collection[i].texts = PNone

\* what the embedded-payload strategy extracts from a page, None where it
\* extracts nothing
FallbackText(tree) ==
    LET r == extract_next_data(tree) IN IF r.raised THEN PNone ELSE r.v

\* C12: the record of a capture whose paragraph selector yields no text but
\* whose __NEXT_DATA__ payload holds paragraph/body/content text carries the
\* text extract_next_data gives for the page, not None.
C12_FallbackToNextData ==
    \A i \in 1..Len(collection) : \A k \in DOMAIN bucket :
        StoredUrl(k) = collection[i].url =>
            LET tree == StoredContent(k).s IN
            (xpath(tree, SelTexts) = <<>> /\ FallbackText(tree) # PNone)
                => collection[i].texts = FallbackText(tree)

\* C13: a pass of Superside.run that finds no capture under pages/<company>
\* ends without raising and leaves the collection as the pass found it.
\* (the collection a full load has just dropped is the one the pass found)
C13_EmptyListingEndsNormally ==
    [][(clock' = clock + 1 /\ files' = PNone) =>
          /\ runPc' # "raised"
          /\ collection' \in {collection, <<>>}]_vars

(***************************************************************************)
(* extract_next_data and cleanhtml called on their own.                    *)
(***************************************************************************)
Returned(v) == [raised |-> FALSE, v |-> v]

LeafStrs ==
    {<<"X">>, <<"<", "b", ">", "Y", "<", "/b", ">">>, <<" ", "Z", "\n">>,
     <<"<", "br", ">">>, <<>>}
LeafValues == {PStr(x) : x \in LeafStrs} \cup {PNone, PList(<<PStr(<<"X">>)>>)}
HarvestKeys == {<<"paragraph">>, <<"body">>, <<"content">>}
\* the payloads of the __NEXT_DATA__ script
Payloads ==
    {PDict(<<[k |-> k1, v |-> v1]>>) :
        k1 \in HarvestKeys \cup {<<"title">>, <<"a">>}, v1 \in LeafValues}
    \cup {PDict(<<[k |-> <<"a">>, v |-> PDict(<<[k |-> k1, v |-> PStr(x1)]>>)],
                  [k |-> k2, v |-> PStr(<<"Y">>)]>>) :
            k1 \in HarvestKeys, x1 \in LeafStrs, k2 \in HarvestKeys \cup {<<"title">>}}
    \cup {PList(<<PDict(<<[k |-> <<"body">>, v |-> PStr(<<"X">>)]>>), PStr(<<"Y">>)>>),
          PDict(<<>>), PStr(<<"X">>), PNone}
\* the pages extract_next_data is given
NextDocs ==
    {<<"<p>", "x", SelNextData>> \o json_dumps(pl) : pl \in Payloads}
    \cup {<<"<div>", "x">>,
          <<"<og:title>", "T", "<p>", "x">>,
          <<"<p>", "x", SelNextData>>,
          <<SelNextData, "{">>}

InitNextData ==
    /\ arg \in NextDocs
    /\ out = Pending
    /\ bucket = EmptyBucket
    /\ lastPut = EmptyBucket
    /\ got = NoRead
    /\ CrawlIdle
    /\ RunIdle

ExtractNextDataCall ==
    /\ out = Pending
    /\ out' = extract_next_data(fromstring(PStr(arg)).tree)
    /\ UNCHANGED <<arg, s3Vars, crawlVars, runVars>>

NextNextData == ExtractNextDataCall

SpecNextData == InitNextData /\ [][NextNextData]_vars

HasScriptTag(doc) == \E i \in 1..Len(doc) : doc[i] = SelNextData
\* the script's payload, where it has one that parses
PayloadOf(doc) ==
    LET scripts == xpath(doc, SelNextData) IN
    IF scripts = <<>> THEN ParseFail ELSE json_loads(scripts[1])
NothingToHarvest(doc) ==
    /\ HasScriptTag(doc)
    /\ PayloadOf(doc).ok =>
          \A k \in HarvestKeys : nested_lookup(k, PayloadOf(doc).v) = <<>>

\* C9: extract_next_data returns None, and does not raise, for a page
\* without a __NEXT_DATA__ script tag and for a page whose tag holds no
\* 'paragraph', 'body' or 'content' value.
C9_AbsentNotRaised ==
    (out # Pending /\ (~HasScriptTag(arg) \/ NothingToHarvest(arg)))
        => out = Returned(PNone)

CleanAlphabet == {"<", ">", "\n", "a"}
CleanInputs == UNION {[1..n -> CleanAlphabet] : n \in 0..MaxCleanLen}

InitClean ==
    /\ arg \in CleanInputs
    /\ out = Pending
    /\ bucket = EmptyBucket
    /\ lastPut = EmptyBucket
    /\ got = NoRead
    /\ CrawlIdle
    /\ RunIdle

CleanHtmlCall ==
    /\ out = Pending
    /\ out' = Returned(cleanhtml(arg))
    /\ UNCHANGED <<arg, s3Vars, crawlVars, runVars>>

NextClean == CleanHtmlCall

SpecClean == InitClean /\ [][NextClean]_vars

RECURSIVE TagSpansRemoved(_)
\* the substitution <[^>]*> -> "": each "<" with a ">" after it is dropped
\* with everything through the next ">"
TagSpansRemoved(s) ==
    IF s = <<>> THEN <<>>
    ELSE IF Head(s) = "<" /\ \E j \in 2..Len(s) : s[j] = ">"
        THEN LET j == CHOOSE j \in 2..Len(s) :
                          s[j] = ">" /\ \A m \in 2..(j - 1) : s[m] # ">"
             IN TagSpansRemoved(SubSeq(s, j + 1, Len(s)))
    ELSE <<Head(s)>> \o TagSpansRemoved(Tail(s))

\* C10: cleanhtml returns its input with every tag-delimited span removed,
\* as the substitution <[^>]*> -> "" does, and the rest unchanged, in order.
C10_TagSpansRemoved == out # Pending => out = Returned(TagSpansRemoved(arg))

\* the values the claim collects: all under 'paragraph', then all under
\* 'body', then all under 'content'
Harvested(payload) ==
    nested_lookup(<<"paragraph">>, payload) \o nested_lookup(<<"body">>, payload)
        \o nested_lookup(<<"content">>, payload)
\* the text the claim describes: tags stripped from each string value, the
\* value trimmed, empty entries dropped, the rest joined with single spaces
TextAsClaimed(values) ==
    LET strs == SelectSeq(values, LAMBDA v : v.t = "str")
        entries == [i \in 1..Len(strs) |-> Strip(TagSpansRemoved(strs[i].s))]
    IN JoinSeq(SelectSeq(entries, LAMBDA e : e # <<>>), <<" ">>)
AllText(values) == \A i \in 1..Len(values) : values[i].t \in {"str", "none"}

\* C11: for every page whose __NEXT_DATA__ payload parses, extract_next_data
\* returns, and when the collected values are strings it returns the text
\* made of the 'paragraph', then 'body', then 'content' values at any depth,
\* each with its tags stripped and trimmed, the empty ones dropped, joined
\* with single spaces (None when that text is empty).
C11_HarvestedText ==
    (out # Pending /\ PayloadOf(arg).ok) =>
        /\ ~out.raised
        /\ AllText(Harvested(PayloadOf(arg).v)) =>
              LET text == TextAsClaimed(Harvested(PayloadOf(arg).v)) IN
              out = Returned(IF text = <<>> THEN PNone ELSE PStr(text))

(***************************************************************************)
(* The object store client driven with arbitrary JSON mappings.            *)
(***************************************************************************)
JsonAlphabet == {"\"", "\\", "n", "\n"}
JsonStrs == UNION {[1..n -> JsonAlphabet] : n \in 0..MaxStrLen}
JsonValues ==
    {PStr(s) : s \in JsonStrs}
    \cup {PNone, PTrue, PList(<<PStr(<<"é", "n">>), PNone>>),
          PDict(<<[k |-> <<"\\">>, v |-> PList(<<>>)]>>)}
JsonKeys == {<<"url">>, <<"\"", "n">>}
JsonMappings ==
    {PDict(<<>>)}
    \cup {PDict(<<[k |-> k1, v |-> v1]>>) : k1 \in JsonKeys, v1 \in JsonValues}
    \cup {PDict(<<[k |-> <<"url">>, v |-> v1], [k |-> <<"content">>, v |-> PDict(<<>>)]>>) :
            v1 \in JsonValues}
S3Paths == {<<"test", ".json">>, <<"pages/", "x", ".json">>}

InitS3 ==
    /\ bucket = EmptyBucket
    /\ lastPut = EmptyBucket
    /\ got = NoRead
    /\ CrawlIdle
    /\ RunIdle
    /\ FnIdle

S3Save(m, path) ==
    /\ bucket' = save_dict_to_json(bucket, m, path)
    /\ lastPut' = put_object(lastPut, path, m)
    /\ got' = NoRead
    /\ UNCHANGED <<crawlVars, runVars, fnVars>>

S3Read(path) ==
    /\ got' = read_json(bucket, path)
    /\ UNCHANGED <<bucket, lastPut, crawlVars, runVars, fnVars>>

NextS3 ==
    \/ \E m \in JsonMappings, p \in S3Paths : S3Save(m, p)
    \/ \E p \in S3Paths : S3Read(p)

SpecS3 == InitS3 /\ [][NextS3]_vars

\* C5: read_json of a key returns exactly the mapping last written to that
\* key by save_dict_to_json, whatever was written to other keys, and it
\* raises only for a key never written.
C5_RoundTrip ==
    /\ got.key # <<>> =>
          IF got.key \in DOMAIN lastPut
          THEN ~got.raised /\ got.v = lastPut[got.key]
          ELSE got.raised
    /\ \A k \in DOMAIN lastPut : read_json(bucket, k) = [raised |-> FALSE, key |-> k, v |-> lastPut[k]]

\* a mapping whose key and value need escaping is read back from one key
\* while another key holds a different body
C5_Witness ==
    /\ got.key = <<"test", ".json">>
    /\ ~got.raised
    /\ got.v = PDict(<<[k |-> <<"\"", "n">>, v |-> PStr(<<"\\">>)]>>)
    /\ <<"pages/", "x", ".json">> \in DOMAIN bucket
    /\ bucket[<<"pages/", "x", ".json">>] # bucket[<<"test", ".json">>]

====
